---- MODULE Spec2Model ----
(***************************************************************************)
(* A model of the EmailListChecker Go client (client.go, errors.go).       *)
(*                                                                         *)
(* One client value serves a sequence of synchronous calls.  Each call of  *)
(* Client.request is one action: it builds the HTTP request, hands it to   *)
(* the transport (the request is appended to `sent`), receives whatever    *)
(* the transport delivers (appended to `rcvd`) and classifies it.  The     *)
(* remote service is an adversary: it may answer any request with any      *)
(* status, Retry-After header and body of the bounded sets below.          *)
(*                                                                         *)
(* JSON values are modelled structurally.  A body is                       *)
(*   [syn, top, data]: syn is what the bytes are (nothing, not JSON, the   *)
(*   literal null, an array, an object); top holds the object's scalar     *)
(*   members; data is the member "data".                                   *)
(* Strings that the code inspects character by character (the Retry-After  *)
(* header, the base URL) are sequences of characters / path tokens.        *)
(***************************************************************************)
EXTENDS Integers, Sequences, FiniteSets, TLC

VARIABLES client, pc, call, sent, rcvd, ret, err, server, built, prev, parked

vars == <<client, pc, call, sent, rcvd, ret, err, server, built, prev, parked>>

\* what no step of a call touches: the remote service, the record of the client
\* as it was constructed, the caller's copy of the previous poll and the locals
\* of the other goroutine
around == <<server, built, prev, parked>>

(***************************************************************************)
(* Program constants                                                       *)
(***************************************************************************)
DefaultBaseURL ==
    <<"https:", "/", "/", "platform.emaillistchecker.io", "/", "api", "/", "v1">>

\* seconds
DefaultTimeout == 30

\* the retry-after used when the header gives none
DefaultRetryAfter == 60

\* resp.StatusCode >= 400 is the failure branch
ErrorThreshold == 400

UserAgent == "EmailListChecker-Go/1.0.0"

(***************************************************************************)
(* Bounds                                                                  *)
(***************************************************************************)
\* batch and list identifiers range over 1..MaxID
MaxID == 2

(***************************************************************************)
(* JSON values                                                             *)
(***************************************************************************)
Keys == {"error", "message", "email", "result", "score", "id", "status", "progress"}

JAbsent == [k |-> "absent", s |-> "", n |-> 0]
JNull == [k |-> "null", s |-> "", n |-> 0]
JStr(x) == [k |-> "str", s |-> x, n |-> 0]
JNum(x) == [k |-> "num", s |-> "", n |-> x]

\* a JSON object with the members of the record o and no others
Obj(o) == [f \in Keys |-> IF f \in DOMAIN o THEN o[f] ELSE JAbsent]

EmptyObj == [f \in Keys |-> JAbsent]

\* the member "data": absent, null, an object or an array (of one object)
NoData == [k |-> "absent", o |-> EmptyObj]
NullData == [k |-> "null", o |-> EmptyObj]
ObjData(o) == [k |-> "object", o |-> Obj(o)]
ArrData(o) == [k |-> "array", o |-> Obj(o)]

EmptyBody == [syn |-> "empty", top |-> EmptyObj, data |-> NoData]
GarbageBody == [syn |-> "garbage", top |-> EmptyObj, data |-> NoData]
NullBody == [syn |-> "null", top |-> EmptyObj, data |-> NoData]
ArrayBody == [syn |-> "array", top |-> EmptyObj, data |-> NoData]
ObjBody(o, d) == [syn |-> "object", top |-> Obj(o), data |-> d]

\* result objects of the three typed operations (score in hundredths)
VerifyObjA == [email |-> JStr("a@b.com"), result |-> JStr("deliverable"), score |-> JNum(97)]
VerifyObjB == [email |-> JStr("c@d.com"), result |-> JStr("risky"), score |-> JNum(40)]
BatchObjA == [id |-> JNum(5), status |-> JStr("pending")]
StatusObjA == [id |-> JNum(5), status |-> JStr("completed"), progress |-> JNum(100)]
\* a result object whose member has the wrong JSON type
BadTypedObj == [email |-> JNum(1), id |-> JStr("five"), status |-> JNum(3)]

Bodies ==
    { EmptyBody, GarbageBody, NullBody, ArrayBody,
      ObjBody(<<>>, NoData),
      ObjBody([error |-> JStr("slow down")], NoData),
      ObjBody([error |-> JNum(5)], NoData),
      ObjBody([error |-> JNull, message |-> JStr("bad email")], NoData),
      ObjBody([message |-> JNum(7)], NoData),
      ObjBody([error |-> JStr("denied")], ObjData(VerifyObjA)),
      ObjBody(<<>>, NullData),
      ObjBody(<<>>, ArrData(StatusObjA)),
      ObjBody(<<>>, ObjData(VerifyObjA)),
      ObjBody(<<>>, ObjData(BatchObjA)),
      ObjBody(<<>>, ObjData(StatusObjA)),
      ObjBody(<<>>, ObjData(BadTypedObj)),
      ObjBody(VerifyObjA, NoData),
      ObjBody(VerifyObjB, NoData),
      ObjBody(StatusObjA, NoData) }

(***************************************************************************)
(* The remote service's answers                                            *)
(***************************************************************************)
Statuses == {200, 204, 400, 401, 402, 422, 429, 503}

\* Retry-After header values, character by character; <<>> is "no header"
NoHeader == <<>>
RetryAfterHeaders ==
    { NoHeader, <<"1", "2", "0">>, <<"3", "0">>, <<"s", "o", "o", "n">>,
      <<"3", "0", "s">>, <<"-", "5">>, <<"+", "7">> }

\* statuses a server accompanies with Retry-After
ThrottleStatuses == {429, 503}

Responses ==
    { [t |-> "resp", status |-> s, retryAfter |-> h, body |-> b] :
        s \in Statuses \ ThrottleStatuses, h \in {NoHeader}, b \in Bodies }
    \cup
    { [t |-> "resp", status |-> s, retryAfter |-> h, body |-> b] :
        s \in ThrottleStatuses, h \in RetryAfterHeaders, b \in Bodies }

\* httpClient.Do fails (connection, timeout, DNS), or the body cannot be read
NetErr == [t |-> "neterr", status |-> 0, retryAfter |-> NoHeader, body |-> EmptyBody]
ReadErr == [t |-> "readerr", status |-> 0, retryAfter |-> NoHeader, body |-> EmptyBody]

Outcomes == Responses \cup {NetErr, ReadErr}

\* a handful of outcomes, one of each sort, for two callers at once
FewOutcomes ==
    { NetErr,
      [t |-> "resp", status |-> 401, retryAfter |-> NoHeader,
       body |-> ObjBody([error |-> JStr("denied")], ObjData(VerifyObjA))],
      [t |-> "resp", status |-> 429, retryAfter |-> <<"3", "0">>, body |-> EmptyBody],
      [t |-> "resp", status |-> 204, retryAfter |-> NoHeader, body |-> EmptyBody],
      [t |-> "resp", status |-> 200, retryAfter |-> NoHeader,
       body |-> ObjBody(<<>>, ObjData(VerifyObjA))],
      [t |-> "resp", status |-> 200, retryAfter |-> NoHeader,
       body |-> ObjBody(StatusObjA, NoData)] }

\* The remote service of one behaviour: it may answer a request with any
\* outcome, with one of the few, or (a service whose state does not change,
\* asked the same thing) always with the same one.
AnyServer == [mode |-> "any", answer |-> NetErr]
FewServer == [mode |-> "few", answer |-> NetErr]
FixedServer(out) == [mode |-> "fixed", answer |-> out]

\* what httpClient.Do and io.ReadAll can deliver for the next request
Answers ==
    CASE server.mode = "fixed" -> {server.answer}
      [] server.mode = "few" -> FewOutcomes
      [] OTHER -> Outcomes

(***************************************************************************)
(* strconv.Atoi                                                            *)
(***************************************************************************)
Digits == <<"0", "1", "2", "3", "4", "5", "6", "7", "8", "9">>

IsDigit(ch) == \E d \in 1..Len(Digits) : Digits[d] = ch

DigitVal(ch) == (CHOOSE d \in 1..Len(Digits) : Digits[d] = ch) - 1

RECURSIVE ParseDigits(_, _)
ParseDigits(s, acc) ==
    IF s = <<>> THEN acc
    ELSE ParseDigits(Tail(s), acc * Len(Digits) + DigitVal(Head(s)))

\* an optional sign, then one or more decimal digits; anything else is an error
Atoi(s) ==
    LET signed == s # <<>> /\ Head(s) \in {"+", "-"}
        body == IF signed THEN Tail(s) ELSE s
    IN  IF body = <<>> \/ \E i \in 1..Len(body) : ~IsDigit(body[i])
        THEN [ok |-> FALSE, val |-> 0]
        ELSE [ok |-> TRUE,
              val |-> IF Head(s) = "-" THEN 0 - ParseDigits(body, 0)
                      ELSE ParseDigits(body, 0)]

(***************************************************************************)
(* errors.go                                                               *)
(***************************************************************************)
\* a nil map[string]interface{}
NilMap == [nil |-> TRUE, top |-> EmptyObj, data |-> NoData]

NoError ==
    [kind |-> "nil", Message |-> "", StatusCode |-> 0, ResponseData |-> NilMap,
     RetryAfter |-> 0]

\* an error that is not one of the typed API errors (fmt.Errorf, transport, os)
PlainError(kind, message) ==
    [kind |-> kind, Message |-> message, StatusCode |-> 0, ResponseData |-> NilMap,
     RetryAfter |-> 0]

NewAuthenticationError(message, statusCode, responseData) ==
    [kind |-> "AuthenticationError", Message |-> message, StatusCode |-> statusCode,
     ResponseData |-> responseData, RetryAfter |-> 0]

NewInsufficientCreditsError(message, statusCode, responseData) ==
    [kind |-> "InsufficientCreditsError", Message |-> message,
     StatusCode |-> statusCode, ResponseData |-> responseData, RetryAfter |-> 0]

NewRateLimitError(retryAfter, statusCode, responseData) ==
    [kind |-> "RateLimitError",
     Message |-> "Rate limit exceeded. Retry after " \o ToString(retryAfter)
                    \o " seconds",
     StatusCode |-> statusCode, ResponseData |-> responseData,
     RetryAfter |-> retryAfter]

NewValidationError(message, statusCode, responseData) ==
    [kind |-> "ValidationError", Message |-> message, StatusCode |-> statusCode,
     ResponseData |-> responseData, RetryAfter |-> 0]

NewAPIError(message, statusCode, responseData) ==
    [kind |-> "APIError", Message |-> message, StatusCode |-> statusCode,
     ResponseData |-> responseData, RetryAfter |-> 0]

TypedKinds ==
    {"AuthenticationError", "InsufficientCreditsError", "RateLimitError",
     "ValidationError", "APIError"}

(***************************************************************************)
(* Error classification                                                    *)
(***************************************************************************)
\* var errData map[string]interface{}; _ = json.Unmarshal(body, &errData)
UnmarshalErrData(body) ==
    IF body.syn = "object"
    THEN [nil |-> FALSE, top |-> body.top, data |-> body.data]
    ELSE NilMap

\* msg := fallback; if errData != nil && errData[key] != nil { msg = errData[key].(string) }
\* The type assertion panics when the member is not a string.
MessageOf(errData, key, fallback) ==
    IF errData.nil \/ errData.top[key].k \in {"absent", "null"}
    THEN [panic |-> FALSE, msg |-> fallback]
    ELSE IF errData.top[key].k = "str"
         THEN [panic |-> FALSE, msg |-> errData.top[key].s]
         ELSE [panic |-> TRUE, msg |-> ""]

\* a variant of RetryAfterOf that forgets the default: retryAfter starts at 0
RetryAfterNoDefault(header) ==
    IF header # NoHeader /\ Atoi(header).ok THEN Atoi(header).val ELSE 0

\* retryAfter := 60; if h := Header.Get("Retry-After"); h != "" { if v, err := Atoi(h); err == nil { retryAfter = v } }
RetryAfterOf(header) ==
    IF header # NoHeader /\ Atoi(header).ok THEN Atoi(header).val
    ELSE DefaultRetryAfter

Classified(m, e) == [panic |-> m.panic, err |-> IF m.panic THEN NoError ELSE e]

\* the switch of Client.request on resp.StatusCode >= 400
RequestClassify(status, header, body) ==
    LET errData == UnmarshalErrData(body) IN
    CASE status = 401 ->
           LET m == MessageOf(errData, "error", "Invalid API key")
           IN  Classified(m, NewAuthenticationError(m.msg, status, errData))
      [] status = 402 ->
           LET m == MessageOf(errData, "error", "Insufficient credits")
           IN  Classified(m, NewInsufficientCreditsError(m.msg, status, errData))
      [] status = 422 ->
           LET m == MessageOf(errData, "message", "Validation error")
           IN  Classified(m, NewValidationError(m.msg, status, errData))
      [] status = 429 ->
           [panic |-> FALSE,
            err |-> NewRateLimitError(RetryAfterOf(header), status, errData)]
      [] OTHER ->
           LET m == MessageOf(errData, "error", "API error: " \o ToString(status))
           IN  Classified(m, NewAPIError(m.msg, status, errData))

\* the switch of Client.VerifyBatchFile on resp.StatusCode >= 400: it has no case 429
UploadClassify(status, header, body) ==
    LET errData == UnmarshalErrData(body) IN
    CASE status = 401 ->
           LET m == MessageOf(errData, "error", "Invalid API key")
           IN  Classified(m, NewAuthenticationError(m.msg, status, errData))
      [] status = 402 ->
           LET m == MessageOf(errData, "error", "Insufficient credits")
           IN  Classified(m, NewInsufficientCreditsError(m.msg, status, errData))
      [] status = 422 ->
           LET m == MessageOf(errData, "message", "Validation error")
           IN  Classified(m, NewValidationError(m.msg, status, errData))
      [] OTHER ->
           LET m == MessageOf(errData, "error", "API error: " \o ToString(status))
           IN  Classified(m, NewAPIError(m.msg, status, errData))

(***************************************************************************)
(* Operations and their result types                                       *)
(***************************************************************************)
DispatcherOps ==
    {"Verify", "VerifyBatch", "GetBatchStatus", "GetBatchResults", "FindEmail",
     "FindByDomain", "FindByCompany", "GetCredits", "GetUsage", "GetLists",
     "DeleteList"}

\* the operations that issue the request again when Data is nil
FallbackOps == {"Verify", "VerifyBatch", "GetBatchStatus"}

Ops == DispatcherOps \cup {"VerifyBatchFile"}

\* the Go type of the envelope's Data member
ResultType(op) ==
    CASE op = "Verify" -> "VerifyResponse"
      [] op \in {"VerifyBatch", "VerifyBatchFile"} -> "BatchResponse"
      [] op = "GetBatchStatus" -> "BatchStatusResponse"
      [] op = "GetBatchResults" -> "interface"
      [] op = "GetLists" -> "slice"
      [] op = "DeleteList" -> "none"
      [] OTHER -> "map"

StructTypes == {"VerifyResponse", "BatchResponse", "BatchStatusResponse"}

\* the members of each struct that the model follows
StructFields(T) ==
    CASE T = "VerifyResponse" -> {"email", "result", "score"}
      [] T = "BatchResponse" -> {"id", "status"}
      [] T = "BatchStatusResponse" -> {"id", "status", "progress"}

FieldType(f) == IF f \in {"email", "result", "status"} THEN "str" ELSE "num"

ZeroOf(f) == IF FieldType(f) = "str" THEN JStr("") ELSE JNum(0)

\* a nil pointer, map, slice or interface
Nil == [nil |-> TRUE, v |-> <<>>]
Ptr(v) == [nil |-> FALSE, v |-> v]

ZeroStruct(T) == [f \in StructFields(T) |-> ZeroOf(f)]

(***************************************************************************)
(* encoding/json, as the client uses it                                    *)
(***************************************************************************)
\* a JSON object decoded into a struct: members of the struct's type are copied,
\* absent and null members leave the zero value, a member of another JSON type
\* is an UnmarshalTypeError, unknown members are ignored
DecodeStruct(T, o) ==
    [ok |-> \A f \in StructFields(T) : o[f].k \in {"absent", "null", FieldType(f)},
     v |-> [f \in StructFields(T) |->
              IF o[f].k = FieldType(f) THEN o[f] ELSE ZeroOf(f)]]

\* a variant of DecodeData whose struct tag does not match "data": the member is
\* never decoded and Data stays nil
DecodeDataTagMismatch(T, d) == [ok |-> TRUE, data |-> Nil]

\* the member "data" decoded into the Data member of type T
DecodeData(T, d) ==
    CASE d.k \in {"absent", "null"} -> [ok |-> TRUE, data |-> Nil]
      [] T \in StructTypes /\ d.k = "object" ->
           [ok |-> DecodeStruct(T, d.o).ok, data |-> Ptr(DecodeStruct(T, d.o).v)]
      [] T = "map" /\ d.k = "object" -> [ok |-> TRUE, data |-> Ptr(d.o)]
      [] T = "slice" /\ d.k = "array" -> [ok |-> TRUE, data |-> Ptr(<<d.o>>)]
      [] T = "interface" -> [ok |-> TRUE, data |-> Ptr(d)]
      [] OTHER -> [ok |-> FALSE, data |-> Nil]

\* json.Unmarshal(body, &result), result being struct{ Data T `json:"data"` }
UnmarshalEnvelope(T, body) ==
    CASE body.syn = "object" -> DecodeData(T, body.data)
      [] body.syn = "null" -> [ok |-> TRUE, data |-> Nil]
      [] OTHER -> [ok |-> FALSE, data |-> Nil]

\* json.Unmarshal(body, &directResult), directResult being a struct of type T
UnmarshalDirect(T, body) ==
    CASE body.syn = "object" ->
           [ok |-> DecodeStruct(T, body.top).ok, v |-> DecodeStruct(T, body.top).v]
      [] body.syn = "null" -> [ok |-> TRUE, v |-> ZeroStruct(T)]
      [] OTHER -> [ok |-> FALSE, v |-> ZeroStruct(T)]

(***************************************************************************)
(* Building requests                                                       *)
(***************************************************************************)
\* a variant of TrimRight that removes one trailing "/" only (strings.TrimSuffix)
TrimOneSlash(s) ==
    IF s # <<>> /\ s[Len(s)] = "/" THEN SubSeq(s, 1, Len(s) - 1) ELSE s

\* strings.TrimRight(s, "/")
RECURSIVE TrimRight(_)
TrimRight(s) ==
    IF s # <<>> /\ s[Len(s)] = "/" THEN TrimRight(SubSeq(s, 1, Len(s) - 1)) ELSE s

\* a chunk url.Parse rejects (an invalid percent-escape)
BadChunk == "%zz"

\* http.NewRequest fails when the URL does not parse
ValidURL(url) == \A i \in 1..Len(url) : url[i] # BadChunk

\* the headers Client.request sets
RequestHeaders(c) ==
    [Authorization |-> "Bearer " \o c.apiKey,
     ContentType |-> "application/json",
     Accept |-> "application/json",
     UserAgent |-> UserAgent]

\* the headers Client.VerifyBatchFile sets
UploadHeaders(c, boundary) ==
    [Authorization |-> "Bearer " \o c.apiKey,
     ContentType |-> "multipart/form-data; boundary=" \o boundary,
     UserAgent |-> UserAgent]

NoBody == [kind |-> "none", json |-> <<>>]
JSONBody(j) == [kind |-> "json", json |-> j]

\* the request Client.request hands to the transport
NewRequest(c, method, endpoint, body) ==
    [method |-> method, url |-> c.baseURL \o endpoint, headers |-> RequestHeaders(c),
     body |-> body]

(***************************************************************************)
(* Client.request                                                          *)
(***************************************************************************)
\* a variant of request that decodes the body into `result` before it looks at
\* the status, so a failure response leaves its members in the result
requestDecodesFailures(out, mode, T) ==
    LET untouched == IF mode = "direct" THEN Ptr(ZeroStruct(T)) ELSE Nil
        decoded ==
            IF mode = "none" \/ out.body.syn = "empty" THEN untouched
            ELSE IF mode = "envelope" THEN UnmarshalEnvelope(T, out.body).data
            ELSE Ptr(UnmarshalDirect(T, out.body).v)
        ok ==
            IF mode = "none" \/ out.body.syn = "empty" THEN TRUE
            ELSE IF mode = "envelope" THEN UnmarshalEnvelope(T, out.body).ok
            ELSE UnmarshalDirect(T, out.body).ok
    IN
    CASE out.t = "neterr" ->
           [panic |-> FALSE, err |-> PlainError("transport", "request failed"),
            val |-> untouched]
      [] out.t = "readerr" ->
           [panic |-> FALSE,
            err |-> PlainError("read", "failed to read response body"),
            val |-> untouched]
      [] out.t = "resp" /\ out.status >= ErrorThreshold ->
           LET cl == RequestClassify(out.status, out.retryAfter, out.body)
           IN  [panic |-> cl.panic, err |-> cl.err, val |-> decoded]
      [] out.t = "resp" /\ out.status < ErrorThreshold ->
           [panic |-> FALSE,
            err |-> IF ok THEN NoError
                    ELSE PlainError("unmarshal", "failed to unmarshal response"),
            val |-> decoded]

\* What one call of request(method, endpoint, body, result) returns, given what
\* the transport delivered.  mode says what `result` points to: "envelope"
\* (struct{Data T}), "direct" (a struct T) or "none" (nil).
\* panic: the call panicked; err: the returned error; val: *result afterwards.
request(out, mode, T) ==
    LET untouched == IF mode = "direct" THEN Ptr(ZeroStruct(T)) ELSE Nil IN
    CASE out.t = "neterr" ->
           [panic |-> FALSE, err |-> PlainError("transport", "request failed"),
            val |-> untouched]
      [] out.t = "readerr" ->
           [panic |-> FALSE,
            err |-> PlainError("read", "failed to read response body"),
            val |-> untouched]
      [] out.t = "resp" /\ out.status >= ErrorThreshold ->
           LET cl == RequestClassify(out.status, out.retryAfter, out.body)
           IN  [panic |-> cl.panic, err |-> cl.err, val |-> untouched]
      [] out.t = "resp" /\ out.status < ErrorThreshold ->
           IF mode = "none" \/ out.body.syn = "empty"
           THEN [panic |-> FALSE, err |-> NoError, val |-> untouched]
           ELSE IF mode = "envelope"
           THEN LET u == UnmarshalEnvelope(T, out.body)
                IN  [panic |-> FALSE,
                     err |-> IF u.ok THEN NoError
                             ELSE PlainError("unmarshal", "failed to unmarshal response"),
                     val |-> u.data]
           ELSE LET u == UnmarshalDirect(T, out.body)
                IN  [panic |-> FALSE,
                     err |-> IF u.ok THEN NoError
                             ELSE PlainError("unmarshal", "failed to unmarshal response"),
                     val |-> Ptr(u.v)]

(***************************************************************************)
(* Client.VerifyBatchFile: local files and the multipart body              *)
(***************************************************************************)
\* paths are sequences of components
GoodPath == <<"data", "emails.csv">>
MissingPath == <<"data", "missing.csv">>
DirPath == <<"data">>
Paths == {GoodPath, MissingPath, DirPath}

\* the file system: os.Open fails on a missing path; a directory opens but
\* cannot be read
FileAt(path) ==
    CASE path = GoodPath -> [state |-> "file", content |-> "a@b.com\nc@d.com\n"]
      [] path = DirPath -> [state |-> "directory", content |-> ""]
      [] OTHER -> [state |-> "missing", content |-> ""]

\* filepath.Base
Base(path) == path[Len(path)]

\* strconv.FormatBool
FormatBool(b) == IF b THEN "true" ELSE "false"

Boundaries == {"b1", "b2"}

\* the multipart body after writer.Close(): the file part, auto_start, then the
\* optional fields, then the closing boundary
MultipartBody(filePath, name, callbackURL, autoStart) ==
    [kind |-> "multipart",
     file |-> [filename |-> Base(filePath), content |-> FileAt(filePath).content],
     fields |-> <<<<"auto_start", FormatBool(autoStart)>>>>
                \o (IF name.nil THEN <<>> ELSE <<<<"name", name.v>>>>)
                \o (IF callbackURL.nil THEN <<>> ELSE <<<<"callback_url", callbackURL.v>>>>),
     closed |-> TRUE]

\* the request Client.VerifyBatchFile hands to the transport
NewUploadRequest(c, body, boundary) ==
    [method |-> "POST", url |-> c.baseURL \o <<"/", "verify", "/", "batch", "/", "upload">>,
     headers |-> UploadHeaders(c, boundary), body |-> body]

\* What VerifyBatchFile returns, given what the transport delivered
uploadResponse(out) ==
    CASE out.t = "neterr" ->
           [panic |-> FALSE, err |-> PlainError("transport", "request failed"),
            val |-> Nil]
      [] out.t = "readerr" ->
           [panic |-> FALSE,
            err |-> PlainError("read", "failed to read response body"), val |-> Nil]
      [] out.t = "resp" /\ out.status >= ErrorThreshold ->
           LET cl == UploadClassify(out.status, out.retryAfter, out.body)
           IN  [panic |-> cl.panic, err |-> cl.err, val |-> Nil]
      [] out.t = "resp" /\ out.status < ErrorThreshold ->
           \* json.Unmarshal runs whatever the body's length; no bytes is an error
           LET u == UnmarshalEnvelope("BatchResponse", out.body)
           IN  IF u.ok THEN [panic |-> FALSE, err |-> NoError, val |-> u.data]
               ELSE [panic |-> FALSE,
                     err |-> PlainError("unmarshal", "unexpected JSON"), val |-> Nil]

(***************************************************************************)
(* Construction                                                            *)
(***************************************************************************)
NewClient(apiKey) ==
    [apiKey |-> apiKey, baseURL |-> DefaultBaseURL, timeout |-> DefaultTimeout]

NewClientWithConfig(apiKey, baseURL, timeout) ==
    [apiKey |-> apiKey, baseURL |-> TrimRight(baseURL), timeout |-> timeout]

ApiKeys == {"key-1", "key-2"}

BaseURLInputs ==
    { <<"https:", "/", "/", "x.io", "/", "api", "/">>,
      <<"https:", "/", "/", "x.io", "/", "api", "/", "/">>,
      <<"https:", "/", "/", BadChunk>> }

ConfigTimeouts == {60}

Clients ==
    { NewClient(k) : k \in ApiKeys }
    \cup { NewClientWithConfig("key-1", u, t) : u \in BaseURLInputs, t \in ConfigTimeouts }

\* the locals of a goroutine that is in no call
IdleLocals ==
    [pc |-> "idle", call |-> [op |-> "none"], sent |-> <<>>, rcvd |-> <<>>,
     ret |-> Nil, err |-> NoError]

\* the caller has not polled yet
NoPoll == [polled |-> FALSE, endpoint |-> <<>>, sent |-> <<>>, ret |-> Nil, err |-> NoError]

\* a client was constructed and no call has been made; the service is srv
InitWith(srv) ==
    /\ client \in Clients
    /\ built = client
    /\ server = srv
    /\ pc = "idle"
    /\ call = [op |-> "none"]
    /\ sent = <<>>
    /\ rcvd = <<>>
    /\ ret = Nil
    /\ err = NoError
    /\ prev = NoPoll
    /\ parked = IdleLocals

Init == InitWith(AnyServer)

(***************************************************************************)
(* The operations: entry of each call                                      *)
(***************************************************************************)
\* a variant of Start that sets the client's timeout back to the default
StartResetsTimeout(op, method, endpoint, body) ==
    /\ pc = "idle"
    /\ pc' = "request"
    /\ call' = [op |-> op, method |-> method, endpoint |-> endpoint, body |-> body]
    /\ sent' = <<>>
    /\ rcvd' = <<>>
    /\ ret' = Nil
    /\ err' = NoError
    /\ client' = [client EXCEPT !.timeout = DefaultTimeout]
    /\ UNCHANGED around

\* a call starts when the caller holds no unfinished call
Start(op, method, endpoint, body) ==
    /\ pc = "idle"
    /\ pc' = "request"
    /\ call' = [op |-> op, method |-> method, endpoint |-> endpoint, body |-> body]
    /\ sent' = <<>>
    /\ rcvd' = <<>>
    /\ ret' = Nil
    /\ err' = NoError
    /\ UNCHANGED client
    /\ UNCHANGED around

\* json.Marshal of VerifyRequest: timeout is omitted when nil
VerifyRequest(email, timeout, smtpCheck) ==
    IF timeout.nil THEN [email |-> email, smtp_check |-> smtpCheck]
    ELSE [email |-> email, timeout |-> timeout.v, smtp_check |-> smtpCheck]

\* json.Marshal of BatchRequest: name and callback_url are omitted when empty
BatchRequest(emails, name, callbackURL, autoStart) ==
    [k \in {"emails", "auto_start"}
          \cup (IF name = "" THEN {} ELSE {"name"})
          \cup (IF callbackURL = "" THEN {} ELSE {"callback_url"}) |->
        CASE k = "emails" -> emails
          [] k = "auto_start" -> autoStart
          [] k = "name" -> name
          [] k = "callback_url" -> callbackURL]

VerifyInputs ==
    { <<"a@b.com", Nil, TRUE>>, <<"test@example.com", Ptr(10), FALSE>> }

BatchInputs ==
    { <<<<"user1@example.com", "user2@example.com">>, "My Test Batch", "", TRUE>>,
      <<<<>>, "", "https://cb.example/hook", FALSE>> }

Verify(email, timeout, smtpCheck) ==
    Start("Verify", "POST", <<"/", "verify">>,
          JSONBody(VerifyRequest(email, timeout, smtpCheck)))

VerifyBatch(emails, name, callbackURL, autoStart) ==
    Start("VerifyBatch", "POST", <<"/", "verify", "/", "batch">>,
          JSONBody(BatchRequest(emails, name, callbackURL, autoStart)))

GetBatchStatus(batchID) ==
    Start("GetBatchStatus", "GET", <<"/", "verify", "/", "batch", "/", ToString(batchID)>>,
          NoBody)

GetBatchResults(batchID, format, filter) ==
    Start("GetBatchResults", "GET",
          <<"/", "verify", "/", "batch", "/", ToString(batchID), "/",
            "results?format=" \o format \o "&filter=" \o filter>>,
          NoBody)

FindEmail(firstName, lastName, domain) ==
    Start("FindEmail", "POST", <<"/", "finder", "/", "email">>,
          JSONBody([first_name |-> firstName, last_name |-> lastName, domain |-> domain]))

FindByDomain(domain, limit, offset) ==
    Start("FindByDomain", "POST", <<"/", "finder", "/", "domain">>,
          JSONBody([domain |-> domain, limit |-> limit, offset |-> offset]))

FindByCompany(company, limit) ==
    Start("FindByCompany", "POST", <<"/", "finder", "/", "company">>,
          JSONBody([company |-> company, limit |-> limit]))

GetCredits == Start("GetCredits", "GET", <<"/", "credits">>, NoBody)

GetUsage == Start("GetUsage", "GET", <<"/", "usage">>, NoBody)

GetLists == Start("GetLists", "GET", <<"/", "lists">>, NoBody)

DeleteList(listID) ==
    Start("DeleteList", "DELETE", <<"/", "lists", "/", ToString(listID)>>, NoBody)

(***************************************************************************)
(* The operations: the dispatcher path                                     *)
(***************************************************************************)
\* what `result` points to in the first call of request
FirstMode(op) == IF op = "DeleteList" THEN "none" ELSE "envelope"

\* a variant of AfterRequest in which Verify, VerifyBatch and GetBatchStatus
\* also request again when the first request returned an error
AfterRequestRetries(op, r) ==
    CASE r.panic -> [pc |-> "panicked", ret |-> Nil, err |-> NoError]
      [] ~r.panic /\ op \in FallbackOps /\ (r.err.kind # "nil" \/ r.val.nil) ->
           [pc |-> "fallback", ret |-> Nil, err |-> NoError]
      [] ~r.panic /\ op \notin FallbackOps /\ r.err.kind # "nil" ->
           [pc |-> "done", ret |-> Nil, err |-> r.err]
      [] OTHER -> [pc |-> "done", ret |-> r.val, err |-> NoError]

\* The wrapper after its first call of request returned r:
\*   if err != nil { return nil, err }
\*   if result.Data != nil { return result.Data, nil }     (Verify, VerifyBatch,
\*   ... request again ...                                   GetBatchStatus)
\*   return result.Data, nil                                (the others)
AfterRequest(op, r) ==
    CASE r.panic -> [pc |-> "panicked", ret |-> Nil, err |-> NoError]
      [] ~r.panic /\ r.err.kind # "nil" -> [pc |-> "done", ret |-> Nil, err |-> r.err]
      [] ~r.panic /\ r.err.kind = "nil" /\ op \in FallbackOps /\ r.val.nil ->
           [pc |-> "fallback", ret |-> Nil, err |-> NoError]
      [] OTHER -> [pc |-> "done", ret |-> r.val, err |-> NoError]

\* The wrapper after the second call of request returned r:
\*   err = c.request(..., &directResult); return &directResult, err
AfterFallback(op, r) ==
    IF r.panic THEN [pc |-> "panicked", ret |-> Nil, err |-> NoError]
    ELSE [pc |-> "done", ret |-> r.val, err |-> r.err]

\* a variant of Request that keeps the URL it built as the client's base URL
RequestRebasesClient ==
    /\ pc = "request"
    /\ client' = [client EXCEPT !.baseURL = client.baseURL \o call.endpoint]
    /\ UNCHANGED call
    /\ UNCHANGED around
    /\ IF ~ValidURL(client.baseURL \o call.endpoint)
       THEN /\ pc' = "done"
            /\ ret' = Nil
            /\ err' = PlainError("create", "failed to create request")
            /\ UNCHANGED <<sent, rcvd>>
       ELSE \E out \in Answers :
              LET a == AfterRequest(call.op,
                                    request(out, FirstMode(call.op), ResultType(call.op)))
              IN  /\ sent' = Append(sent, NewRequest(client, call.method, call.endpoint,
                                                     call.body))
                  /\ rcvd' = Append(rcvd, out)
                  /\ pc' = a.pc
                  /\ ret' = a.ret
                  /\ err' = a.err

\* the first call of c.request and the wrapper's handling of what it returns
Request ==
    /\ pc = "request"
    /\ UNCHANGED <<client, call>>
    /\ UNCHANGED around
    /\ IF ~ValidURL(client.baseURL \o call.endpoint)
       THEN /\ pc' = "done"
            /\ ret' = Nil
            /\ err' = PlainError("create", "failed to create request")
            /\ UNCHANGED <<sent, rcvd>>
       ELSE \E out \in Answers :
              LET a == AfterRequest(call.op,
                                    request(out, FirstMode(call.op), ResultType(call.op)))
              IN  /\ sent' = Append(sent, NewRequest(client, call.method, call.endpoint,
                                                     call.body))
                  /\ rcvd' = Append(rcvd, out)
                  /\ pc' = a.pc
                  /\ ret' = a.ret
                  /\ err' = a.err

\* the second call of c.request, into directResult
Fallback ==
    /\ pc = "fallback"
    /\ UNCHANGED <<client, call>>
    /\ UNCHANGED around
    /\ \E out \in Answers :
         LET a == AfterFallback(call.op, request(out, "direct", ResultType(call.op)))
         IN  /\ sent' = Append(sent, NewRequest(client, call.method, call.endpoint,
                                                call.body))
             /\ rcvd' = Append(rcvd, out)
             /\ pc' = a.pc
             /\ ret' = a.ret
             /\ err' = a.err

(***************************************************************************)
(* The operations: the upload path                                         *)
(***************************************************************************)
UploadInputs ==
    { <<p, n, Nil, a>> : p \in Paths, n \in {Nil, Ptr("june")}, a \in BOOLEAN }

\* a variant of VerifyBatchFile that drops the error of os.Open and goes on
VerifyBatchFileOpenUnchecked(filePath, name, callbackURL, autoStart) ==
    /\ pc = "idle"
    /\ call' = [op |-> "VerifyBatchFile", method |-> "POST",
                endpoint |-> <<"/", "verify", "/", "batch", "/", "upload">>,
                filePath |-> filePath, name |-> name, callbackURL |-> callbackURL,
                autoStart |-> autoStart, body |-> NoBody, boundary |-> ""]
    /\ sent' = <<>>
    /\ rcvd' = <<>>
    /\ ret' = Nil
    /\ pc' = "build"
    /\ err' = NoError
    /\ UNCHANGED client
    /\ UNCHANGED around

\* entry of VerifyBatchFile up to os.Open
VerifyBatchFile(filePath, name, callbackURL, autoStart) ==
    /\ pc = "idle"
    /\ call' = [op |-> "VerifyBatchFile", method |-> "POST",
                endpoint |-> <<"/", "verify", "/", "batch", "/", "upload">>,
                filePath |-> filePath, name |-> name, callbackURL |-> callbackURL,
                autoStart |-> autoStart, body |-> NoBody, boundary |-> ""]
    /\ sent' = <<>>
    /\ rcvd' = <<>>
    /\ ret' = Nil
    /\ IF FileAt(filePath).state = "missing"
       THEN /\ pc' = "done"
            /\ err' = PlainError("open", "failed to open file")
       ELSE /\ pc' = "build"
            /\ err' = NoError
    /\ UNCHANGED client
    /\ UNCHANGED around

\* the multipart body is written and closed, then http.NewRequest
BuildMultipart ==
    /\ pc = "build"
    /\ UNCHANGED <<client, sent, rcvd, ret>>
    /\ UNCHANGED around
    /\ IF FileAt(call.filePath).state = "directory"
       THEN /\ pc' = "done"
            /\ err' = PlainError("copy", "read error")
            /\ UNCHANGED call
       ELSE IF ~ValidURL(client.baseURL \o call.endpoint)
       THEN /\ pc' = "done"
            /\ err' = PlainError("create", "invalid URL")
            /\ UNCHANGED call
       ELSE \E b \in Boundaries :
              /\ call' = [call EXCEPT
                            !.body = MultipartBody(call.filePath, call.name,
                                                   call.callbackURL, call.autoStart),
                            !.boundary = b]
              /\ pc' = "upload"
              /\ UNCHANGED err

\* httpClient.Do, io.ReadAll and the handling of the response
UploadDo ==
    /\ pc = "upload"
    /\ UNCHANGED <<client, call>>
    /\ UNCHANGED around
    /\ \E out \in Answers :
         LET r == uploadResponse(out)
         IN  /\ sent' = Append(sent, NewUploadRequest(client, call.body, call.boundary))
             /\ rcvd' = Append(rcvd, out)
             /\ pc' = IF r.panic THEN "panicked" ELSE "done"
             /\ ret' = r.val
             /\ err' = r.err

(***************************************************************************)
(* The caller                                                              *)
(***************************************************************************)
\* the caller has taken (value, error) and is free to make its next call; a
\* panic is not recovered
Return ==
    /\ pc = "done"
    /\ pc' = "idle"
    /\ call' = [op |-> "none"]
    /\ sent' = <<>>
    /\ rcvd' = <<>>
    /\ ret' = Nil
    /\ err' = NoError
    /\ UNCHANGED client
    /\ UNCHANGED around

(***************************************************************************)
(* Specification                                                           *)
(***************************************************************************)
Next ==
    \/ \E i \in VerifyInputs : Verify(i[1], i[2], i[3])
    \/ \E i \in BatchInputs : VerifyBatch(i[1], i[2], i[3], i[4])
    \/ \E i \in UploadInputs : VerifyBatchFile(i[1], i[2], i[3], i[4])
    \/ BuildMultipart
    \/ UploadDo
    \/ \E id \in 1..MaxID : GetBatchStatus(id)
    \/ \E id \in 1..MaxID : GetBatchResults(id, "json", "all")
    \/ FindEmail("John", "Doe", "example.com")
    \/ FindByDomain("example.com", 10, 0)
    \/ FindByCompany("Example Inc", 10)
    \/ GetCredits
    \/ GetUsage
    \/ GetLists
    \/ \E id \in 1..MaxID : DeleteList(id)
    \/ Request
    \/ Fallback
    \/ Return

Spec == Init /\ [][Next]_vars

(***************************************************************************)
(* Polling a batch: the loop of the batch example                          *)
(***************************************************************************)
\* the loop keeps what the poll returned and polls again
PollAgain ==
    /\ pc = "done"
    /\ prev' = [polled |-> TRUE, endpoint |-> call.endpoint, sent |-> sent,
                ret |-> ret, err |-> err]
    /\ pc' = "idle"
    /\ call' = [op |-> "none"]
    /\ sent' = <<>>
    /\ rcvd' = <<>>
    /\ ret' = Nil
    /\ err' = NoError
    /\ UNCHANGED <<client, server, built, parked>>

\* a service whose state does not change gives one answer, whichever it is
InitPoll == \E out \in Outcomes : InitWith(FixedServer(out))

NextPoll ==
    \/ \E id \in 1..MaxID : GetBatchStatus(id)
    \/ Request
    \/ Fallback
    \/ PollAgain

SpecPoll == InitPoll /\ [][NextPoll]_vars

(***************************************************************************)
(* Two goroutines calling one client                                       *)
(***************************************************************************)
\* the locals of the goroutine that is running
Locals ==
    [pc |-> pc, call |-> call, sent |-> sent, rcvd |-> rcvd, ret |-> ret, err |-> err]

\* the scheduler takes the running goroutine off and puts the other one on;
\* the client is the one value both hold
Switch ==
    /\ parked' = Locals
    /\ pc' = parked.pc
    /\ call' = parked.call
    /\ sent' = parked.sent
    /\ rcvd' = parked.rcvd
    /\ ret' = parked.ret
    /\ err' = parked.err
    /\ UNCHANGED <<client, server, built, prev>>

InitConc == InitWith(FewServer)

NextConc ==
    \/ Verify("a@b.com", Nil, TRUE)
    \/ VerifyBatchFile(GoodPath, Nil, Nil, TRUE)
    \/ VerifyBatchFile(MissingPath, Nil, Nil, TRUE)
    \/ BuildMultipart
    \/ UploadDo
    \/ GetBatchStatus(1)
    \/ GetCredits
    \/ DeleteList(1)
    \/ Request
    \/ Fallback
    \/ Return
    \/ Switch

SpecConc == InitConc /\ [][NextConc]_vars

(***************************************************************************)
(* Properties                                                              *)
(***************************************************************************)
\* the call has ended: it returned, or it panicked
Ended == pc \in {"done", "panicked"}

\* what the transport delivered last in the current call
LastOut == rcvd[Len(rcvd)]

\* the call ended on a response with status >= 400
EndedOnFailure ==
    /\ Ended
    /\ rcvd # <<>>
    /\ LastOut.t = "resp"
    /\ LastOut.status >= 400

\* the table of section 4.2: the variant each failing status maps to
VariantOf(s) ==
    CASE s = 401 -> "AuthenticationError"
      [] s = 402 -> "InsufficientCreditsError"
      [] s = 422 -> "ValidationError"
      [] s = 429 -> "RateLimitError"
      [] OTHER -> "APIError"

\* C1: every dispatcher operation that receives a response with status s >= 400
\* returns an error of the variant the table gives for s, carrying StatusCode s,
\* whatever the body.
C1_StatusDeterminesVariant ==
    (call.op \in DispatcherOps /\ EndedOnFailure) =>
        /\ pc = "done"
        /\ err.kind = VariantOf(LastOut.status)
        /\ err.StatusCode = LastOut.status

\* C2: on any response with status >= 400 the upload ends exactly as a dispatcher
\* operation ends on the same status, Retry-After header and body: the same
\* error with the same fields (a 429 gives a RateLimitError with its retry-after).
C2_UploadClassifiesLikeDispatcher ==
    (call.op = "VerifyBatchFile" /\ EndedOnFailure) =>
        LET d == request(LastOut, "envelope", "BatchResponse")
        IN  /\ (pc = "panicked") = d.panic
            /\ pc = "done" => err = d.err

\* C3: no operation panics, whatever the body of a response with status >= 400;
\* and when that body is not a JSON object the returned error has no payload.
C3_NeverPanics ==
    /\ pc # "panicked"
    /\ (pc = "done" /\ EndedOnFailure /\ LastOut.body.syn # "object") =>
           (err.kind \in TypedKinds /\ err.ResponseData.nil)

\* C4: a call hands exactly one request to the transport: never more than one,
\* and one when it returns after the server answered.
C4_OneRoundTrip ==
    /\ Len(sent) <= 1
    /\ (pc = "done" /\ rcvd # <<>>) => Len(sent) = 1

\* the integer a header denotes, by place value; used only for headers that are
\* an optional sign followed by digits
C5_Pow10(n) == IF n = 0 THEN 1 ELSE IF n = 1 THEN 10 ELSE IF n = 2 THEN 100 ELSE 1000

C5_Digit(ch) ==
    CASE ch = "0" -> 0 [] ch = "1" -> 1 [] ch = "2" -> 2 [] ch = "3" -> 3
      [] ch = "4" -> 4 [] ch = "5" -> 5 [] ch = "6" -> 6 [] ch = "7" -> 7
      [] ch = "8" -> 8 [] ch = "9" -> 9

C5_IsInteger(h) ==
    LET first == IF h # <<>> /\ h[1] \in {"+", "-"} THEN 2 ELSE 1
    IN  /\ first <= Len(h)
        /\ \A i \in first..Len(h) :
             h[i] \in {"0", "1", "2", "3", "4", "5", "6", "7", "8", "9"}

RECURSIVE C5_Sum(_, _)
C5_Sum(h, i) ==
    IF i > Len(h) THEN 0
    ELSE (IF h[i] \in {"+", "-"} THEN 0 ELSE C5_Digit(h[i]) * C5_Pow10(Len(h) - i))
         + C5_Sum(h, i + 1)

C5_Expected(h) ==
    IF C5_IsInteger(h)
    THEN (IF h[1] = "-" THEN 0 - C5_Sum(h, 1) ELSE C5_Sum(h, 1))
    ELSE 60

\* C5: a dispatcher operation that receives a 429 returns a RateLimitError; the
\* RetryAfter of every RateLimitError is the integer the Retry-After header
\* denotes ("120" gives 120, "30" gives 30), and 60 when the header is missing
\* or is not an integer.
C5_RetryAfterFromHeader ==
    /\ (call.op \in DispatcherOps /\ EndedOnFailure /\ LastOut.status = 429) =>
           (pc = "done" /\ err.kind = "RateLimitError")
    /\ err.kind = "RateLimitError" =>
           /\ EndedOnFailure /\ LastOut.status = 429
           /\ err.RetryAfter = C5_Expected(LastOut.retryAfter)
           /\ LastOut.retryAfter = <<"1", "2", "0">> => err.RetryAfter = 120
           /\ LastOut.retryAfter = <<"3", "0">> => err.RetryAfter = 30
           /\ LastOut.retryAfter \in {NoHeader, <<"s", "o", "o", "n">>, <<"3", "0", "s">>}
                 => err.RetryAfter = 60

\* the end-to-end scenario: 429, Retry-After: 30, {"error":"slow down"}
C5_Witness ==
    /\ pc = "done"
    /\ call.op \in DispatcherOps
    /\ rcvd # <<>>
    /\ LastOut.status = 429
    /\ LastOut.retryAfter = <<"3", "0">>
    /\ LastOut.body = ObjBody([error |-> JStr("slow down")], NoData)
    /\ err.kind = "RateLimitError"
    /\ err.RetryAfter = 30

\* C6: an operation that returns (value, error) returns one of them and not the
\* other: a non-nil error comes with a nil value, and a nil error with a non-nil
\* typed value.
C6_ValueXorError ==
    (pc = "done" /\ call.op # "DeleteList") =>
        /\ err.kind # "nil" => ret.nil
        /\ (err.kind = "nil" /\ ResultType(call.op) \in StructTypes) => ~ret.nil

\* the first response of the call is a success carrying a bare result object
\* that fits the operation's result type
C7_BareFirst ==
    /\ rcvd # <<>>
    /\ rcvd[1].t = "resp"
    /\ rcvd[1].status < 400
    /\ rcvd[1].body.syn = "object"
    /\ rcvd[1].body.data.k \in {"absent", "null"}
    /\ \A f \in StructFields(ResultType(call.op)) :
         rcvd[1].body.top[f].k \in {"absent", FieldType(f)}
    /\ \E f \in StructFields(ResultType(call.op)) : rcvd[1].body.top[f].k # "absent"

\* C7: when the response to Verify, VerifyBatch or GetBatchStatus is the bare
\* result object, the operation returns that object, decoded from the body it
\* has received.
C7_BareObjectReturned ==
    (call.op \in FallbackOps /\ Ended /\ C7_BareFirst) =>
        /\ pc = "done"
        /\ err.kind = "nil"
        /\ ~ret.nil
        /\ \A f \in StructFields(ResultType(call.op)) :
             ret.v[f] = IF rcvd[1].body.top[f].k = "absent" THEN ZeroOf(f)
                        ELSE rcvd[1].body.top[f]

\* the member "data" holds a result of the shape the operation expects
C8_Fits(op, d) ==
    CASE ResultType(op) \in StructTypes ->
           /\ d.k = "object"
           /\ \A f \in StructFields(ResultType(op)) : d.o[f].k \in {"absent", FieldType(f)}
      [] ResultType(op) = "map" -> d.k = "object"
      [] ResultType(op) = "slice" -> d.k = "array"
      [] ResultType(op) = "interface" -> d.k \in {"object", "array"}
      [] OTHER -> FALSE

\* the first response of the call is a success that wraps a fitting result
C8_WrappedFirst ==
    /\ call.op \in Ops \ {"DeleteList"}
    /\ rcvd # <<>>
    /\ rcvd[1].t = "resp"
    /\ rcvd[1].status < 400
    /\ rcvd[1].body.syn = "object"
    /\ C8_Fits(call.op, rcvd[1].body.data)

\* C8: when the response with status < 400 is {"data": <result>}, the operation
\* returns after that single request, with a nil error and the inner result:
\* member for member for the typed results, the value itself for the untyped.
C8_WrappedObjectReturned ==
    C8_WrappedFirst =>
        LET d == rcvd[1].body.data
            T == ResultType(call.op)
        IN  /\ pc = "done"
            /\ Len(sent) = 1
            /\ err.kind = "nil"
            /\ ~ret.nil
            /\ T \in StructTypes =>
                 \A f \in StructFields(T) :
                    ret.v[f] = IF d.o[f].k = "absent" THEN ZeroOf(f) ELSE d.o[f]
            /\ T = "map" => ret.v = d.o
            /\ T = "slice" => ret.v = <<d.o>>
            /\ T = "interface" => ret.v = d
            /\ (call.op = "Verify" /\ d = ObjData(VerifyObjA)) =>
                 ret.v = [email |-> JStr("a@b.com"), result |-> JStr("deliverable"),
                          score |-> JNum(97)]

\* the end-to-end scenario: POST /verify answered 200 with
\* {"data":{"email":"a@b.com","result":"deliverable","score":0.97}}
C8_Witness ==
    /\ pc = "done"
    /\ call.op = "Verify"
    /\ rcvd = <<[t |-> "resp", status |-> 200, retryAfter |-> NoHeader,
                 body |-> ObjBody(<<>>, ObjData(VerifyObjA))]>>
    /\ Len(sent) = 1
    /\ sent[1].method = "POST"
    /\ err.kind = "nil"
    /\ ~ret.nil
    /\ ret.v.email = JStr("a@b.com")

\* the errors VerifyBatchFile returns before it has a request to send
C9_LocalFailures == {"open", "copy", "create"}

\* C9: VerifyBatchFile on a path that cannot be opened returns the open error
\* with no request handed to the transport; whenever it holds a local failure
\* nothing has been sent; it sends at most once, and what it sends is the
\* complete multipart body (file part, fields, closing boundary).
C9_LocalFailureBeforeSend ==
    call.op = "VerifyBatchFile" =>
        /\ FileAt(call.filePath).state = "missing" =>
              (pc = "done" /\ err.kind = "open" /\ ret.nil /\ sent = <<>> /\ rcvd = <<>>)
        /\ err.kind \in C9_LocalFailures => (sent = <<>> /\ rcvd = <<>>)
        /\ Len(sent) <= 1
        /\ sent # <<>> =>
              /\ FileAt(call.filePath).state = "file"
              /\ sent[1].body.kind = "multipart"
              /\ sent[1].body.closed
              /\ sent[1].body.file.content = FileAt(call.filePath).content
              /\ sent[1].body.fields[1] = <<"auto_start", FormatBool(call.autoStart)>>

\* VerifyBatchFile on the missing path has returned its error
C9_Witness ==
    /\ call.op = "VerifyBatchFile"
    /\ call.filePath = MissingPath
    /\ pc = "done"
    /\ err.kind = "open"
    /\ sent = <<>>

\* C10: every request handed to the transport, the upload's included, carries
\* Authorization: Bearer <the client's key>, Accept: application/json and the
\* User-Agent; Content-Type is application/json for a JSON body and the
\* multipart boundary type for an upload.
C10_RequiredHeaders ==
    \A i \in 1..Len(sent) :
        LET h == sent[i].headers
        IN  /\ {"Authorization", "Accept", "UserAgent", "ContentType"} \subseteq DOMAIN h
            /\ h.Authorization = "Bearer " \o client.apiKey
            /\ h.Accept = "application/json"
            /\ h.UserAgent = "EmailListChecker-Go/1.0.0"
            /\ sent[i].body.kind = "json" => h.ContentType = "application/json"
            /\ sent[i].body.kind = "multipart" =>
                 h.ContentType = "multipart/form-data; boundary=" \o call.boundary

\* further base URL strings, for the constructor alone
C11_MoreBaseURLs ==
    BaseURLInputs \cup
    { <<>>, <<"/">>, <<"/", "/", "/">>, <<"https:", "/", "/", "x.io">>,
      <<"https:", "/", "/", "x.io", "/">>, <<"x.io", "/", "/", "api", "/", "/", "/">> }

\* s with every trailing "/" removed: its longest prefix that is empty or ends
\* in another token
C11_Stripped(s) ==
    LET keep == {n \in 0..Len(s) :
                   /\ \A i \in (n + 1)..Len(s) : s[i] = "/"
                   /\ n > 0 => s[n] # "/"}
    IN  SubSeq(s, 1, CHOOSE n \in keep : TRUE)

\* C11: the base URL a client holds never ends in "/", whatever string it was
\* built from ("https://x.io/api/" gives "https://x.io/api", NewClient gives the
\* default); every request URL is the base URL followed by the endpoint path,
\* with exactly one "/" where they join.
C11_BaseURLNoTrailingSlash ==
    /\ client.baseURL = <<>> \/ client.baseURL[Len(client.baseURL)] # "/"
    /\ \A u \in C11_MoreBaseURLs :
         LET c == NewClientWithConfig("key-1", u, 60)
         IN  /\ c.baseURL = C11_Stripped(u)
             /\ c.baseURL = <<>> \/ c.baseURL[Len(c.baseURL)] # "/"
    /\ NewClientWithConfig("key-1", <<"https:", "/", "/", "x.io", "/", "api", "/">>, 60).baseURL
          = <<"https:", "/", "/", "x.io", "/", "api">>
    /\ NewClient("key-1").baseURL = DefaultBaseURL
    /\ \A i \in 1..Len(sent) :
         LET n == Len(client.baseURL)
             url == sent[i].url
         IN  /\ url = client.baseURL \o call.endpoint
             /\ SubSeq(url, 1, n) = client.baseURL
             /\ url[n + 1] = "/"
             /\ n > 0 => url[n] # "/"
             /\ url[n + 2] # "/"

\* a client built from a base URL with trailing slashes has sent a request
C11_Witness ==
    /\ client.baseURL = <<"https:", "/", "/", "x.io", "/", "api">>
    /\ sent # <<>>
    /\ sent[1].url = <<"https:", "/", "/", "x.io", "/", "api", "/", "verify">>

\* the message each failure variant must carry, from the status and the payload
\* of the failure response: a string member of the payload where the variant
\* takes one, the fixed text otherwise
C12_Member(body, key) ==
    IF body.syn = "object" THEN body.top[key] ELSE JAbsent

C12_FromPayload(body, key, fallback) ==
    LET v == C12_Member(body, key)
    IN  IF v.k \in {"absent", "null"} THEN fallback ELSE v.s

C12_ExpectedMessage(out) ==
    CASE out.status = 401 -> C12_FromPayload(out.body, "error", "Invalid API key")
      [] out.status = 402 -> C12_FromPayload(out.body, "error", "Insufficient credits")
      [] out.status = 422 -> C12_FromPayload(out.body, "message", "Validation error")
      [] out.status = 429 ->
           "Rate limit exceeded. Retry after "
              \o ToString(C5_Expected(out.retryAfter)) \o " seconds"
      [] OTHER -> C12_FromPayload(out.body, "error", "API error: " \o ToString(out.status))

\* C12: a call ended by a response with status >= 400 returns an error whose
\* message comes from the source its variant names: the payload's error member
\* for 401, 402 and the other statuses, its message member for 422, each with
\* its fixed fallback text when the member is not there, and the text made from
\* the retry-after value for 429 whatever the payload holds.
C12_MessageSource ==
    EndedOnFailure =>
        /\ pc = "done"
        /\ err.Message = C12_ExpectedMessage(LastOut)

\* C13: the status alone decides the branch, at 400.  A call ended by a response
\* with status >= 400 returns a typed error and a result nothing was decoded
\* into, whatever the body holds (no value when the failing request was the
\* call's first, the zero value of the result type when it was the one a
\* fallback operation re-issued); a call ended by a response with status < 400
\* returns no typed error.
C13_StatusAloneDecides ==
    /\ (EndedOnFailure /\ pc = "done") =>
          /\ err.kind \in TypedKinds
          /\ err.StatusCode = LastOut.status
          /\ Len(rcvd) = 1 => ret.nil
          /\ Len(rcvd) = 2 => ret = Ptr(ZeroStruct(ResultType(call.op)))
    /\ (Ended /\ rcvd # <<>> /\ LastOut.t = "resp" /\ LastOut.status < ErrorThreshold) =>
          /\ pc = "done"
          /\ err.kind \notin TypedKinds

\* a fallback operation's second request was answered 400 with a body that is
\* a JSON object holding members of the result type; the result is still zero
C13_Witness ==
    /\ pc = "done"
    /\ EndedOnFailure
    /\ call.op \in FallbackOps
    /\ Len(rcvd) = 2
    /\ LastOut.status = ErrorThreshold
    /\ LastOut.body.syn = "object"
    /\ \E f \in StructFields(ResultType(call.op)) : LastOut.body.top[f].k # "absent"
    /\ ret = Ptr(ZeroStruct(ResultType(call.op)))

\* C14: a response with status < 400 and an empty body ends the request as a
\* success with nothing decoded: the call returns a nil error and the result as
\* it was (no value; the zero value for a re-issued request), for every
\* operation, VerifyBatchFile included.
C14_EmptyBodyIsSuccess ==
    (Ended /\ rcvd # <<>> /\ LastOut.t = "resp"
       /\ LastOut.status < ErrorThreshold /\ LastOut.body.syn = "empty") =>
        /\ pc = "done"
        /\ err.kind = "nil"
        /\ Len(rcvd) = 1 => ret.nil
        /\ Len(rcvd) = 2 => ret = Ptr(ZeroStruct(ResultType(call.op)))

\* the transport failed, or the response has status >= 400
C17_Failed(out) == out.t # "resp" \/ out.status >= ErrorThreshold

\* a response with status < 400 in which data is absent or null: no body, the
\* body null, or an object without data or with data null
C17_NoData(out) ==
    /\ out.t = "resp"
    /\ out.status < ErrorThreshold
    /\ \/ out.body.syn \in {"empty", "null"}
       \/ out.body.syn = "object" /\ out.body.data.k \in {"absent", "null"}

\* C17: no call retries after a failure and none sends more than two requests.
\* A transport error or a response with status >= 400 is the last thing a call
\* receives, and the call has ended.  A second request is sent only by Verify,
\* VerifyBatch and GetBatchStatus, only after a first response with status < 400
\* whose data is absent or null; it equals the first (method, URL, headers,
\* body), and the result and error the call returns are those of that second
\* request.
C17_NoRetryAtMostTwo ==
    /\ Len(sent) <= 2
    /\ Len(rcvd) = Len(sent)
    /\ \A i \in 1..Len(rcvd) : C17_Failed(rcvd[i]) => (i = Len(rcvd) /\ Ended)
    /\ Len(sent) = 2 =>
          /\ call.op \in FallbackOps
          /\ C17_NoData(rcvd[1])
          /\ sent[2] = sent[1]
          /\ sent[2].method = call.method
          /\ sent[2].url = client.baseURL \o call.endpoint
          /\ Ended
    /\ (Len(sent) = 2 /\ pc = "done") =>
          LET T == ResultType(call.op)
              second == request(rcvd[2], "direct", T)
          IN  /\ ret = second.val
              /\ err = second.err
              /\ rcvd[2].t = "neterr" => err.kind = "transport"
              /\ (rcvd[2].t = "resp" /\ rcvd[2].status >= ErrorThreshold) =>
                    (err.kind \in TypedKinds /\ err.StatusCode = rcvd[2].status)
              /\ (rcvd[2].t = "resp" /\ rcvd[2].status < ErrorThreshold
                    /\ rcvd[2].body.syn = "object" /\ err.kind = "nil") =>
                    \A f \in StructFields(T) :
                        rcvd[2].body.top[f].k = "str" => ret.v[f] = rcvd[2].body.top[f]

\* Verify sent its request twice: the first answer had data null, the second
\* was the bare object, which is what the call returned
C17_Witness ==
    /\ pc = "done"
    /\ call.op = "Verify"
    /\ Len(sent) = 2
    /\ rcvd[1].status = 200
    /\ rcvd[1].body.data.k = "null"
    /\ rcvd[2].t = "resp"
    /\ rcvd[2].status = 200
    /\ rcvd[2].body = ObjBody(VerifyObjA, NoData)
    /\ err.kind = "nil"
    /\ ret.v.email = JStr("a@b.com")

\* the path of the status of batch id
C15_Path(id) == <<"/", "verify", "/", "batch", "/", ToString(id)>>

\* the poll that just ended asked for the batch the poll before it asked for
C15_SecondPoll == Ended /\ prev.polled /\ prev.endpoint = call.endpoint

\* C15: GetBatchStatus is an idempotent read.  Against a service whose state
\* does not change, a poll with the id of the poll before it returns what that
\* poll returned (the same snapshot, the same error); every request of a poll
\* is GET base URL/verify/batch/{id}; no poll changes the client.  The service
\* may wrap the snapshot in data or return it bare: either way the poll returns
\* the snapshot it sent.
C15_IdempotentPoll ==
    /\ client = built
    /\ pc # "idle" => \E id \in 1..MaxID : call.endpoint = C15_Path(id)
    /\ \A i \in 1..Len(sent) :
         /\ sent[i].method = "GET"
         /\ sent[i].url = built.baseURL \o call.endpoint
         /\ sent[i].body = NoBody
    /\ C15_SecondPoll =>
         /\ pc = "done"
         /\ ret = prev.ret
         /\ err = prev.err
         /\ sent = prev.sent
    /\ (pc = "done" /\ sent # <<>> /\ server.answer.t = "resp" /\ server.answer.status = 200
          /\ server.answer.body \in {ObjBody(<<>>, ObjData(StatusObjA)),
                                     ObjBody(StatusObjA, NoData)}) =>
         /\ err.kind = "nil"
         /\ ~ret.nil
         /\ \A f \in StructFields("BatchStatusResponse") : ret.v[f] = StatusObjA[f]

\* the second of two polls of one batch has returned the snapshot the service
\* sends bare, as the first did
C15_Witness ==
    /\ C15_SecondPoll
    /\ pc = "done"
    /\ server.answer.t = "resp"
    /\ server.answer.status = 200
    /\ server.answer.body = ObjBody(StatusObjA, NoData)
    /\ Len(sent) = 2
    /\ ~ret.nil
    /\ ret.v.status = JStr("completed")
    /\ ret = prev.ret

\* C16: the credential, the base URL and the timeout of a client are written at
\* construction and never after.  Whatever two goroutines call on one client,
\* in whatever order their steps interleave and however the calls end, the
\* client equals the client as constructed; a step of one goroutine changes
\* that goroutine's locals and nothing of the other's, and the client is the
\* only value they share.
C16_ClientNeverWritten ==
    /\ [](/\ client = built
          /\ client \in Clients)
    /\ [][/\ client' = client
          /\ built' = built
          /\ \/ parked' = parked
             \/ parked' = Locals /\ Locals' = parked]_vars

\* both goroutines are in a call on the one client: one has a failed call
\* behind it, the other waits between the two requests of Verify
C16_Witness ==
    /\ pc = "done"
    /\ call.op = "DeleteList"
    /\ err.kind = "AuthenticationError"
    /\ parked.pc = "fallback"
    /\ parked.call.op = "Verify"
    /\ Len(parked.sent) = 1
    /\ client = built

====
